---- MODULE Spec2Model ----
(***************************************************************************)
(* Model of src/app/lib/clientStorage.ts: a string key-value store that    *)
(* prefers IndexedDB (the primary tier) and falls back to localStorage     *)
(* (the fallback tier).                                                    *)
(*                                                                         *)
(* One public call is in flight at a time in Spec (a caller that awaits    *)
(* each call before issuing the next); SpecConc adds a setString issued    *)
(* while that call is in flight.  A call is a small state machine          *)
(* whose positions are the points where the code awaits an IndexedDB       *)
(* event.  A readwrite transaction outlives the call that created it:      *)
(* withStore resolves on the request's success event, the transaction      *)
(* commits or aborts in a later task.                                      *)
(*                                                                         *)
(* SpecPage and SpecLoad add the page container of src/app/page.tsx, the   *)
(* only caller of the module: loadCode on mount and the debounced save.    *)
(***************************************************************************)
EXTENDS Integers, Sequences, FiniteSets, TLC

\* ---------------------------------------------------------------- bounds
\* Number of distinct non-empty string values callers store.
NumVals == 1

\* ------------------------------------------------------------ value space
\* JavaScript null (getItem on a missing key, entry?.value ?? null).
Null == "null"
\* The document key of the page container.
STORAGE_KEY == "chathtml-code"
\* Keys callers use.
Keys == {STORAGE_KEY, "doc-1"}
\* Enumeration order of getAllKeys / ls.key(i).
KeyOrder == <<STORAGE_KEY, "doc-1">>
\* Prefixes callers scan for.
Prefixes == {"", "doc-"}
\* String values; the empty string is a value, distinct from null.
Vals == {""} \cup {ToString(i) : i \in 1..NumVals}
\* The built-in document of the page container (page.tsx lines 9-30).
INITIAL_CODE == "<!DOCTYPE html>"
\* Contents of one tier: every key maps to a value or to Null (no entry).
Tier == [Keys -> Vals \cup {INITIAL_CODE, Null}]

OpNames == {"getString", "setString", "remove", "keysWithPrefix",
            "migrateLocalStorageKeyToIdb"}

VARIABLES
  idb,    \* committed contents of the IndexedDB object store 'kv'
  ls,     \* contents of window.localStorage
  hasLS,  \* whether safeLocalStorage() yields a Storage object
  lsRaises, \* whether the Storage object's getItem, removeItem and key
          \* can raise; a conforming Storage raises in setItem only
          \* (QuotaExceededError)
  tx,     \* the readwrite transaction whose request succeeded and which
          \* has neither committed nor aborted yet (NoTx when none)
  leaked, \* whether withStore opened a connection that nothing will close
          \* (db.close() runs only in tx.oncomplete and tx.onerror)
  cur,    \* the public call in flight, or the one that returned last
  co,     \* the setString call issued while cur was in flight (Idle when
          \* none was)
  page,   \* the page container (page.tsx): its React state, the position of
          \* loadCode and the pending save timer; NoPage where no page is
          \* mounted
  prev    \* history: while cur is a getString(k), the setString(k, v) or
          \* the keysWithPrefix that listed k, when that call returned
          \* immediately before it, or the migration loadCode awaited
          \* before it (Idle when the call before cur was anything else)

vars == <<idb, ls, hasLS, lsRaises, tx, leaked, cur, co, page, prev>>

NoTx == [kind |-> "none", key |-> Null, value |-> Null]

\* The page container before it has rendered: useState initial values
\* (page.tsx lines 35-37), loadCode not started, no timer.
\*   pc       position of loadCode: "mount", "migrating", "fetching",
\*            "reading", "ready" (it returned), "failed" (it threw)
\*   timer    the code value the pending save timer captured, or Null
\*   shareId  whether the URL carries ?share= (cleared once loadCode has
\*            looked at it)
\*   shared   history: the code the share fetch delivered, kept until the
\*            document is edited or saved; else Null
\*   read     history: getString was invoked on this mount
\*   expect   history: the value the last setString of the session before
\*            committed to the primary tier, kept until this session
\*            saves; else Null
Mounted(share, expect) ==
  [pc |-> "mount", code |-> INITIAL_CODE, isLoaded |-> FALSE,
   isLoadingShare |-> TRUE, timer |-> Null, shareId |-> share,
   shared |-> Null, read |-> FALSE, expect |-> expect]

\* No page container is mounted (the storage module is used directly).
NoPage == [Mounted(FALSE, Null) EXCEPT !.pc = "none"]

\* A call that has not been made.
Idle == [op |-> "idle", key |-> Null, value |-> Null, pc |-> "done",
         v |-> Null, prim |-> "none", fb |-> "none", txf |-> "none",
         ret |-> "returned", result |-> Null, keys |-> <<>>]

\* ----------------------------------------------------------- pure helpers
\* String.prototype.startsWith
StartsWith(k, p) == Len(p) <= Len(k) /\ SubSeq(k, 1, Len(p)) = p

RECURSIVE FilterSeq(_, _)
\* Array.prototype.filter with the startsWith test, order kept
FilterSeq(s, p) ==
  IF s = <<>> THEN <<>>
  ELSE IF StartsWith(Head(s), p) THEN <<Head(s)>> \o FilterSeq(Tail(s), p)
       ELSE FilterSeq(Tail(s), p)

\* Bug variant of KeysOf: every key of the enumeration order is listed,
\* whether or not the store holds an entry for it.
KeysOfAll(store, order) == order

RECURSIVE KeysOf(_, _)
\* The keys of store that hold an entry, in enumeration order
KeysOf(store, order) ==
  IF order = <<>> THEN <<>>
  ELSE IF store[Head(order)] # Null
       THEN <<Head(order)>> \o KeysOf(store, Tail(order))
       ELSE KeysOf(store, Tail(order))

\* entry?.value ?? null of the record store.get(key) yields
idbGetString(store, key) == store[key]

\* store.put({key, value}) once its transaction has committed
\* Bug variant of idbSetString: an existing entry is kept (a write that
\* only fills an empty slot, as store.add would) instead of replaced.
idbSetStringKeepsExisting(store, key, value) ==
  IF store[key] # Null THEN store ELSE [store EXCEPT ![key] = value]
idbSetString(store, key, value) == [store EXCEPT ![key] = value]

\* store.delete(key) once its transaction has committed
\* Bug variant of idbRemove: store.clear() in place of store.delete(key).
idbRemoveClear(store, key) == [k \in Keys |-> Null]
idbRemove(store, key) == [store EXCEPT ![key] = Null]

\* getAllKeys() mapped to strings and filtered by prefix
idbKeysWithPrefix(store, prefix) == FilterSeq(KeysOf(store, KeyOrder), prefix)

\* Storage.getItem / setItem / removeItem when they do not throw
lsGetItem(store, key) == store[key]
lsSetItem(store, key, value) == [store EXCEPT ![key] = value]
\* Bug variant of lsRemoveItem: ls.clear() in place of removeItem(key).
lsRemoveItemClear(store, key) == [k \in Keys |-> Null]
lsRemoveItem(store, key) == [store EXCEPT ![key] = Null]

\* The transaction a resolved write request leaves behind
\* Bug variant of TxOf: every put carries the value the call read from
\* localStorage (c.v), which a setString never set.
TxOfReadValue(c) ==
  [kind  |-> IF c.op = "remove" THEN "delete" ELSE "put",
   key   |-> c.key,
   value |-> IF c.op = "remove" THEN Null ELSE c.v]
TxOf(c) ==
  [kind  |-> IF c.op = "remove" THEN "delete" ELSE "put",
   key   |-> c.key,
   value |-> IF c.op = "remove" THEN Null
             ELSE IF c.op = "setString" THEN c.value ELSE c.v]

\* A call that has ended: it returned or it threw.
Finish(c, ret) == [c EXCEPT !.pc = "done", !.ret = ret]

\* ------------------------------------------------- the public functions
\* Each operator below is the block of code a call runs in one turn of the
\* event loop; it yields the call afterwards and the new localStorage.
\*   c      the call        store  localStorage before the block
\*   has    safeLocalStorage() is not null
\*   throws the Storage method the block calls raises

\* Bug variant of getStringFallback: a value read from localStorage is
\* removed from it (a read that "moves" the legacy entry).
getStringFallbackConsumes(c, store, has, throws) ==
  IF ~has
  THEN [call |-> Finish([c EXCEPT !.fb = "nols", !.result = Null], "returned"),
        ls |-> store]
  ELSE IF throws
  THEN [call |-> Finish([c EXCEPT !.fb = "threw"], "threw"), ls |-> store]
  ELSE [call |-> Finish([c EXCEPT !.fb = "ok",
                                  !.result = lsGetItem(store, c.key)],
                        "returned"),
        ls |-> lsRemoveItem(store, c.key)]

\* getString, lines 95-96: the read of the fallback tier (not in a try).
getStringFallback(c, store, has, throws) ==
  IF ~has
  THEN [call |-> Finish([c EXCEPT !.fb = "nols", !.result = Null], "returned"),
        ls |-> store]
  ELSE IF throws
  THEN [call |-> Finish([c EXCEPT !.fb = "threw"], "threw"), ls |-> store]
  ELSE [call |-> Finish([c EXCEPT !.fb = "ok",
                                  !.result = lsGetItem(store, c.key)],
                        "returned"),
        ls |-> store]

\* Bug variant of getStringResolved: returns whatever the primary read
\* yields, null included, without consulting localStorage.
getStringResolvedNoFallThrough(c, v, store, has, throws) ==
  [call |-> Finish([c EXCEPT !.prim = "resolved", !.result = v], "returned"),
   ls |-> store]

\* Bug variant of getStringResolved: tests `if (v)` instead of
\* `if (v !== null)`, so a stored empty string falls through.
getStringResolvedFalsy(c, v, store, has, throws) ==
  IF v # Null /\ v # ""
  THEN [call |-> Finish([c EXCEPT !.prim = "resolved", !.result = v],
                        "returned"),
        ls |-> store]
  ELSE getStringFallback([c EXCEPT !.prim = "resolved"], store, has, throws)

\* getString, lines 89-90: idbGetString resolved with v.
getStringResolved(c, v, store, has, throws) ==
  IF v # Null
  THEN [call |-> Finish([c EXCEPT !.prim = "resolved", !.result = v],
                        "returned"),
        ls |-> store]
  ELSE getStringFallback([c EXCEPT !.prim = "resolved"], store, has, throws)

\* Bug variant of setStringResolved: mirrors the value into localStorage
\* after the primary write resolved.
setStringResolvedShadow(c, store) ==
  [call |-> Finish([c EXCEPT !.prim = "resolved", !.txf = "pending"],
                   "returned"),
   ls |-> lsSetItem(store, c.key, c.value)]

\* setString, lines 102-103: idbSetString resolved.
setStringResolved(c, store) ==
  [call |-> Finish([c EXCEPT !.prim = "resolved", !.txf = "pending"],
                   "returned"),
   ls |-> store]

\* Bug variant of setStringCatch: when setItem raises, the handler
\* removes the key's old entry.
setStringCatchClears(c, store, has, throws) ==
  LET r == [c EXCEPT !.prim = "rejected"] IN
  IF ~has
  THEN [call |-> Finish([r EXCEPT !.fb = "nols"], "returned"), ls |-> store]
  ELSE IF throws
  THEN [call |-> Finish([r EXCEPT !.fb = "threw"], "returned"),
        ls |-> lsRemoveItem(store, c.key)]
  ELSE [call |-> Finish([r EXCEPT !.fb = "ok"], "returned"),
        ls |-> lsSetItem(store, c.key, c.value)]

\* Bug variant of setStringCatch: the catch block only swallows the
\* rejection and never writes localStorage.
setStringCatchNoWrite(c, store, has, throws) ==
  [call |-> Finish([c EXCEPT !.prim = "rejected",
                             !.fb = IF has THEN "ok" ELSE "nols"],
                   "returned"),
   ls |-> store]

\* setString, lines 104-115: idbSetString rejected.
setStringCatch(c, store, has, throws) ==
  LET r == [c EXCEPT !.prim = "rejected"] IN
  IF ~has
  THEN [call |-> Finish([r EXCEPT !.fb = "nols"], "returned"), ls |-> store]
  ELSE IF throws
  THEN [call |-> Finish([r EXCEPT !.fb = "threw"], "returned"), ls |-> store]
  ELSE [call |-> Finish([r EXCEPT !.fb = "ok"], "returned"),
        ls |-> lsSetItem(store, c.key, c.value)]

\* Bug variant of removeFallback: the fallback deletion sits inside the
\* try of the primary deletion, so a rejected idbRemove skips it.
removeFallbackAfterSuccess(c, store, has, throws) ==
  IF c.prim = "rejected"
  THEN [call |-> Finish(c, "returned"), ls |-> store]
  ELSE IF ~has
  THEN [call |-> Finish([c EXCEPT !.fb = "nols"], "returned"), ls |-> store]
  ELSE IF throws
  THEN [call |-> Finish([c EXCEPT !.fb = "threw"], "returned"), ls |-> store]
  ELSE [call |-> Finish([c EXCEPT !.fb = "ok"], "returned"),
        ls |-> lsRemoveItem(store, c.key)]

\* remove, lines 124-129: the fallback deletion, after either primary outcome.
removeFallback(c, store, has, throws) ==
  IF ~has
  THEN [call |-> Finish([c EXCEPT !.fb = "nols"], "returned"), ls |-> store]
  ELSE IF throws
  THEN [call |-> Finish([c EXCEPT !.fb = "threw"], "returned"), ls |-> store]
  ELSE [call |-> Finish([c EXCEPT !.fb = "ok"], "returned"),
        ls |-> lsRemoveItem(store, c.key)]

\* Bug variant of keysWithPrefixResolved: an empty primary listing falls
\* through to the scan of localStorage, as getString does on null.
keysWithPrefixResolvedFallThrough(c, ks, store) ==
  [call |-> Finish([c EXCEPT !.prim = "resolved",
                             !.keys = IF ks # <<>> THEN ks
                                      ELSE FilterSeq(KeysOf(store, KeyOrder),
                                                     c.key)],
                   "returned"),
   ls |-> store]

\* keysWithPrefix, line 134: idbKeysWithPrefix resolved with ks.
keysWithPrefixResolved(c, ks, store) ==
  [call |-> Finish([c EXCEPT !.prim = "resolved", !.keys = ks], "returned"),
   ls |-> store]

\* Bug variant of keysWithPrefixCatch: the catch returns [] without
\* scanning localStorage.
keysWithPrefixCatchEmpty(c, store, has, failAt) ==
  [call |-> Finish([c EXCEPT !.prim = "rejected",
                             !.fb = IF has THEN "ok" ELSE "nols",
                             !.keys = <<>>],
                   "returned"),
   ls |-> store]

\* Bug variant of keysWithPrefixCatch: the scan carries on behind the
\* index that raised (try inside the loop) and drops what it had.
keysWithPrefixCatchSkips(c, store, has, failAt) ==
  LET r   == [c EXCEPT !.prim = "rejected"]
      all == KeysOf(store, KeyOrder)
  IN IF ~has
     THEN [call |-> Finish([r EXCEPT !.fb = "nols", !.keys = <<>>], "returned"),
           ls |-> store]
     ELSE [call |-> Finish([r EXCEPT
                              !.fb = IF failAt < Len(all) THEN "threw" ELSE "ok",
                              !.keys = FilterSeq(SubSeq(all, failAt + 2, Len(all)),
                                                 c.key)],
                           "returned"),
           ls |-> store]

\* keysWithPrefix, lines 139-151: the scan of the fallback tier; ls.key(i)
\* raises at index failAt (0-based), or never when failAt = ls.length.
keysWithPrefixCatch(c, store, has, failAt) ==
  LET r   == [c EXCEPT !.prim = "rejected"]
      all == KeysOf(store, KeyOrder)
  IN IF ~has
     THEN [call |-> Finish([r EXCEPT !.fb = "nols", !.keys = <<>>], "returned"),
           ls |-> store]
     ELSE [call |-> Finish([r EXCEPT
                              !.fb = IF failAt < Len(all) THEN "threw" ELSE "ok",
                              !.keys = FilterSeq(SubSeq(all, 1, failAt), c.key)],
                           "returned"),
           ls |-> store]

\* Bug variant of migrateStart: the `if (v == null) return` of line 159
\* is missing, so an absent key is written to the primary tier as well.
migrateStartNoNullCheck(c, store, has, throws) ==
  IF ~has
  THEN [call |-> Finish([c EXCEPT !.fb = "nols"], "returned"), ls |-> store]
  ELSE IF throws
  THEN [call |-> Finish([c EXCEPT !.fb = "threw"], "threw"), ls |-> store]
  ELSE [call |-> [c EXCEPT !.fb = "ok", !.v = lsGetItem(store, c.key),
                           !.pc = "open"],
        ls |-> store]

\* migrateLocalStorageKeyToIdb, lines 156-162: up to the await.
migrateStart(c, store, has, throws) ==
  IF ~has
  THEN [call |-> Finish([c EXCEPT !.fb = "nols"], "returned"), ls |-> store]
  ELSE IF throws
  THEN [call |-> Finish([c EXCEPT !.fb = "threw"], "threw"), ls |-> store]
  ELSE IF lsGetItem(store, c.key) = Null
  THEN [call |-> Finish([c EXCEPT !.fb = "ok"], "returned"), ls |-> store]
  ELSE [call |-> [c EXCEPT !.fb = "ok", !.v = lsGetItem(store, c.key),
                           !.pc = "open"],
        ls |-> store]

\* Bug variant of migrateResolved: the copy in localStorage is kept.
migrateResolvedKeeps(c, store, throws) ==
  [call |-> Finish([c EXCEPT !.prim = "resolved", !.txf = "pending"],
                   "returned"),
   ls |-> store]

\* migrateLocalStorageKeyToIdb, lines 162-163: idbSetString resolved.
migrateResolved(c, store, throws) ==
  LET r == [c EXCEPT !.prim = "resolved", !.txf = "pending"] IN
  IF throws
  THEN [call |-> Finish([r EXCEPT !.fb = "threw"], "returned"), ls |-> store]
  ELSE [call |-> Finish(r, "returned"), ls |-> lsRemoveItem(store, c.key)]

\* Bug variant of migrateCatch: the rejected write is awaited again
\* instead of being given up (a retry loop around idbSetString).
migrateCatchRetries(c, store) ==
  [call |-> [c EXCEPT !.prim = "rejected", !.pc = "open"], ls |-> store]

\* migrateLocalStorageKeyToIdb, lines 164-166: idbSetString rejected.
migrateCatch(c, store) ==
  [call |-> Finish([c EXCEPT !.prim = "rejected"], "returned"), ls |-> store]

\* The continuation of a call whose primary-tier promise rejected.
Rejected(c, store, has, throws, failAt) ==
  CASE c.op = "getString" ->
         getStringFallback([c EXCEPT !.prim = "rejected"], store, has, throws)
    [] c.op = "setString" -> setStringCatch(c, store, has, throws)
    [] c.op = "remove" ->
         removeFallback([c EXCEPT !.prim = "rejected"], store, has, throws)
    [] c.op = "keysWithPrefix" -> keysWithPrefixCatch(c, store, has, failAt)
    [] c.op = "migrateLocalStorageKeyToIdb" -> migrateCatch(c, store)

\* The continuation of a call whose primary-tier promise resolved
\* (withStore line 45), reading the committed store db.
Resolved(c, db, store, has, throws) ==
  CASE c.op = "getString" ->
         getStringResolved(c, idbGetString(db, c.key), store, has, throws)
    [] c.op = "setString" -> setStringResolved(c, store)
    [] c.op = "remove" ->
         removeFallback([c EXCEPT !.prim = "resolved", !.txf = "pending"],
                        store, has, throws)
    [] c.op = "keysWithPrefix" ->
         keysWithPrefixResolved(c, idbKeysWithPrefix(db, c.key), store)
    [] c.op = "migrateLocalStorageKeyToIdb" -> migrateResolved(c, store, throws)

\* Whether the call's request belongs to a readwrite transaction.
IsWrite(c) == c.op \in {"setString", "remove", "migrateLocalStorageKeyToIdb"}

\* Whether the Storage method the call's fallback block uses can raise:
\* setItem can (quota), the others only in a Storage that lsRaises.
CanRaise(c) == hasLS /\ (c.op = "setString" \/ lsRaises)

\* The inputs of the fallback block that the block reads: throws for the
\* blocks that call one Storage method, the failing index for the scan.
FaultChoices(c) ==
  {f \in [throws : BOOLEAN, failAt : 0..Len(KeysOf(ls, KeyOrder))] :
     /\ (f.throws => CanRaise(c) /\ c.op # "keysWithPrefix")
     /\ (f.failAt # Len(KeysOf(ls, KeyOrder))
           => CanRaise(c) /\ c.op = "keysWithPrefix")}

\* ---------------------------------------------------------------- actions
NewCall(op, k, v) == [Idle EXCEPT !.op = op, !.key = k, !.value = v,
                                  !.pc = "open", !.ret = "pending"]

\* A caller invokes getString, setString, remove or keysWithPrefix: the
\* call runs to `await openDb()` (line 39).
Call ==
  /\ cur.pc = "done"
  /\ co.pc = "done"
  /\ \E op \in OpNames \ {"migrateLocalStorageKeyToIdb"} :
       \E k \in (IF op = "keysWithPrefix" THEN Prefixes ELSE Keys) :
         \E v \in (IF op = "setString" THEN Vals ELSE {Null}) :
           /\ cur' = NewCall(op, k, v)
           /\ prev' = IF /\ op = "getString" /\ co = Idle
                         /\ \/ cur.op = "setString" /\ cur.key = k
                            \/ /\ cur.op = "keysWithPrefix"
                               /\ \E i \in 1..Len(cur.keys) : cur.keys[i] = k
                      THEN cur ELSE Idle
  /\ co' = Idle
  /\ UNCHANGED <<idb, ls, hasLS, page, lsRaises, leaked, tx>>

\* A caller invokes migrateLocalStorageKeyToIdb (lines 155-162).
CallMigrate ==
  /\ cur.pc = "done"
  /\ co.pc = "done"
  /\ \E k \in Keys : \E throws \in {t \in BOOLEAN : t => hasLS /\ lsRaises} :
       LET r == migrateStart(NewCall("migrateLocalStorageKeyToIdb", k, Null),
                             ls, hasLS, throws)
       IN cur' = r.call /\ ls' = r.ls
  /\ prev' = Idle
  /\ co' = Idle
  /\ UNCHANGED <<idb, hasLS, page, lsRaises, leaked, tx>>

\* The call's primary-tier promise rejects and the call runs its catch.
Reject ==
  \E f \in FaultChoices(cur) :
    LET r == Rejected(cur, ls, hasLS, f.throws, f.failAt)
    IN cur' = r.call /\ ls' = r.ls

\* openDb rejects: no indexedDB in window (line 20) or the open request's
\* error event (line 34).
OpenError ==
  /\ cur.pc = "open"
  /\ Reject
  /\ UNCHANGED <<idb, hasLS, page, lsRaises, leaked, co, tx, prev>>

\* openDb resolves (line 33), withStore creates the transaction and issues
\* the request (lines 41-43).
OpenSuccess ==
  /\ cur.pc = "open"
  /\ cur' = [cur EXCEPT !.pc = "req"]
  /\ UNCHANGED <<idb, ls, hasLS, page, lsRaises, leaked, co, tx, prev>>

\* openDb resolves and db.transaction or the store method raises (lines
\* 41-43): the promise executor's exception rejects withStore's promise;
\* no handler was registered yet, so the open connection is never closed.
TransactionThrows ==
  /\ cur.pc = "open"
  /\ Reject
  /\ leaked' = TRUE
  /\ UNCHANGED <<idb, hasLS, page, lsRaises, tx, co, prev>>

\* The request's success event (line 45).  A transaction runs after the
\* readwrite transactions created before it have finished.
RequestSuccess ==
  /\ cur.pc = "req"
  /\ tx = NoTx
  /\ \E f \in FaultChoices(cur) :
       LET r == Resolved(cur, idb, ls, hasLS, f.throws)
       IN cur' = r.call /\ ls' = r.ls
  /\ tx' = IF IsWrite(cur) THEN TxOf(cur) ELSE NoTx
  /\ UNCHANGED <<idb, hasLS, page, lsRaises, leaked, co, prev>>

\* The request's error event (lines 46, 49-53); its transaction aborts.
RequestError ==
  /\ cur.pc = "req"
  /\ tx = NoTx
  /\ Reject
  /\ UNCHANGED <<idb, hasLS, page, lsRaises, leaked, co, tx, prev>>

\* The fate of the pending transaction, noted in the call that created it.
Fate(c, fate) == IF c.txf = "pending" THEN [c EXCEPT !.txf = fate] ELSE c

\* The store after the pending transaction commits.
Committed(db, t) ==
  IF t.kind = "put" THEN idbSetString(db, t.key, t.value)
  ELSE idbRemove(db, t.key)

\* The pending transaction commits (tx.oncomplete, line 48).
TxComplete ==
  /\ tx # NoTx
  /\ idb' = Committed(idb, tx)
  /\ tx' = NoTx
  /\ cur' = Fate(cur, "committed")
  /\ co' = Fate(co, "committed")
  /\ prev' = Fate(prev, "committed")
  /\ UNCHANGED <<ls, hasLS, page, lsRaises, leaked>>

\* The pending transaction aborts after its request succeeded (for
\* instance QuotaExceededError at commit): an abort event, for which
\* withStore registers no handler; the promise is already resolved and
\* the connection stays open.
TxAbort ==
  /\ tx # NoTx
  /\ tx' = NoTx
  /\ cur' = Fate(cur, "aborted")
  /\ co' = Fate(co, "aborted")
  /\ prev' = Fate(prev, "aborted")
  /\ leaked' = TRUE
  /\ UNCHANGED <<idb, ls, hasLS, page, lsRaises>>

\* Both tiers empty, no call made; the browser may deny localStorage.
Start ==
  /\ idb = [k \in Keys |-> Null]
  /\ ls = [k \in Keys |-> Null]
  /\ hasLS \in BOOLEAN
  /\ tx = NoTx
  /\ leaked = FALSE
  /\ cur = Idle
  /\ co = Idle
  /\ page = NoPage
  /\ prev = Idle

\* A conforming Storage.
Init == Start /\ lsRaises = FALSE

\* A Storage whose every method can raise.
InitFaulty == Start /\ lsRaises = TRUE

Next ==
  \/ Call
  \/ CallMigrate
  \/ OpenError
  \/ OpenSuccess
  \/ TransactionThrows
  \/ RequestSuccess
  \/ RequestError
  \/ TxComplete
  \/ TxAbort

Spec == Init /\ [][Next]_vars

SpecFaulty == InitFaulty /\ [][Next]_vars

\* Every event the code awaits is eventually delivered: an open request
\* ends in success or error (lines 33-34), a request in success or error
\* (lines 45-46), a transaction in complete or abort.
Delivery ==
  /\ WF_vars(OpenError \/ OpenSuccess \/ TransactionThrows)
  /\ WF_vars(RequestSuccess \/ RequestError)
  /\ WF_vars(TxComplete \/ TxAbort)

\* Call with every keyed function on the document key; the history prev
\* is not kept.
CallOnDoc ==
  /\ cur.pc = "done"
  /\ co.pc = "done"
  /\ \E op \in OpNames \ {"migrateLocalStorageKeyToIdb"} :
       \E k \in (IF op = "keysWithPrefix" THEN Prefixes ELSE {STORAGE_KEY}) :
         \E v \in (IF op = "setString" THEN Vals ELSE {Null}) :
           cur' = NewCall(op, k, v)
  /\ co' = Idle
  /\ prev' = Idle
  /\ UNCHANGED <<idb, ls, hasLS, page, lsRaises, leaked, tx>>

NextLive ==
  \/ CallOnDoc
  \/ CallMigrate
  \/ OpenError
  \/ OpenSuccess
  \/ TransactionThrows
  \/ RequestSuccess
  \/ RequestError
  \/ TxComplete
  \/ TxAbort

SpecLive == Init /\ [][NextLive]_vars /\ Delivery

\* ---------------------------------------------------- overlapping calls
\* The page container's calls, all on STORAGE_KEY: getString (page.tsx
\* line 69) and setString (line 84); the history prev is not kept.
CallDoc ==
  /\ cur.pc = "done"
  /\ co.pc = "done"
  /\ \E op \in {"getString", "setString"} :
       \E v \in (IF op = "setString" THEN Vals ELSE {Null}) :
         cur' = NewCall(op, STORAGE_KEY, v)
  /\ co' = Idle
  /\ prev' = Idle
  /\ UNCHANGED <<idb, ls, hasLS, page, lsRaises, leaked, tx>>

\* The caller does not await cur and invokes setString while cur is in
\* flight (page.tsx line 84: `void setString(STORAGE_KEY, code)`).  The
\* open requests of one database are served in the order they were made,
\* and readwrite transactions on one object store run in the order they
\* were created: co's open settles after cur's, and co's request after
\* cur's request and cur's transaction.
CoCall ==
  /\ cur.pc # "done"
  /\ co = Idle
  /\ \E v \in Vals : co' = NewCall("setString", STORAGE_KEY, v)
  /\ UNCHANGED <<idb, ls, hasLS, page, lsRaises, leaked, tx, cur, prev>>

\* co's primary-tier promise rejects and co runs its catch.
CoReject ==
  \E f \in FaultChoices(co) :
    LET r == Rejected(co, ls, hasLS, f.throws, f.failAt)
    IN co' = r.call /\ ls' = r.ls

\* openDb rejects for co (lines 20, 34).
CoOpenError ==
  /\ co.pc = "open"
  /\ cur.pc # "open"
  /\ CoReject
  /\ UNCHANGED <<idb, hasLS, page, lsRaises, leaked, tx, cur, prev>>

\* openDb resolves for co (line 33), lines 41-43 run.
CoOpenSuccess ==
  /\ co.pc = "open"
  /\ cur.pc # "open"
  /\ co' = [co EXCEPT !.pc = "req"]
  /\ UNCHANGED <<idb, ls, hasLS, page, lsRaises, leaked, tx, cur, prev>>

\* openDb resolves for co and lines 41-43 raise.
CoTransactionThrows ==
  /\ co.pc = "open"
  /\ cur.pc # "open"
  /\ CoReject
  /\ leaked' = TRUE
  /\ UNCHANGED <<idb, hasLS, page, lsRaises, tx, cur, prev>>

\* The success event of co's request (line 45).
CoRequestSuccess ==
  /\ co.pc = "req"
  /\ cur.pc = "done"
  /\ tx = NoTx
  /\ \E f \in FaultChoices(co) :
       LET r == Resolved(co, idb, ls, hasLS, f.throws)
       IN co' = r.call /\ ls' = r.ls
  /\ tx' = TxOf(co)
  /\ UNCHANGED <<idb, hasLS, page, lsRaises, leaked, cur, prev>>

\* The error event of co's request (lines 46, 49-53).
CoRequestError ==
  /\ co.pc = "req"
  /\ cur.pc = "done"
  /\ tx = NoTx
  /\ CoReject
  /\ UNCHANGED <<idb, hasLS, page, lsRaises, leaked, tx, cur, prev>>

NextConc ==
  \/ CallDoc
  \/ CallMigrate
  \/ OpenError
  \/ OpenSuccess
  \/ TransactionThrows
  \/ RequestSuccess
  \/ RequestError
  \/ TxComplete
  \/ TxAbort
  \/ CoCall
  \/ CoOpenError
  \/ CoOpenSuccess
  \/ CoTransactionThrows
  \/ CoRequestSuccess
  \/ CoRequestError

SpecConc == Init /\ [][NextConc]_vars

\* ----------------------------------------------------- the page container
\* src/app/page.tsx: loadCode (lines 41-78) runs once after the first
\* render; the save effect (lines 81-88) runs after every render in which
\* code, isLoaded or isLoadingShare changed.  The page uses the slot cur
\* for the calls of loadCode and for a save issued when no call is in
\* flight, and the slot co for a save issued while cur is in flight; a
\* save that would be the third call in flight waits.

\* loadCode starts: migrateLocalStorageKeyToIdb(STORAGE_KEY) runs to its
\* await (page.tsx line 43).
LoadMigrate ==
  /\ page.pc = "mount"
  /\ \E throws \in {t \in BOOLEAN : t => hasLS /\ lsRaises} :
       LET r == migrateStart(NewCall("migrateLocalStorageKeyToIdb",
                                     STORAGE_KEY, Null),
                             ls, hasLS, throws)
       IN cur' = r.call /\ ls' = r.ls
  /\ page' = [page EXCEPT !.pc = "migrating"]
  /\ UNCHANGED <<idb, hasLS, lsRaises, leaked, tx, co, prev>>

\* Bug variant of LoadStored: setIsLoaded(true) is called before the
\* stored document is read, so the save effect starts its timer with the
\* built-in document.
LoadStoredEager(p) ==
  [p EXCEPT !.pc = "reading", !.isLoadingShare = FALSE, !.read = TRUE,
            !.isLoaded = TRUE, !.timer = p.code]

\* page.tsx lines 66-69: setIsLoadingShare(false), then getString.
LoadStored(p) ==
  [p EXCEPT !.pc = "reading", !.isLoadingShare = FALSE, !.read = TRUE]

\* The migration returned (page.tsx lines 45-49): with a share id the
\* fetch is started, without one the stored document is read.  A
\* migration that threw rejects loadCode, which nothing catches.
LoadMigrated ==
  /\ page.pc = "migrating"
  /\ cur.pc = "done"
  /\ IF cur.ret = "threw"
     THEN page' = [page EXCEPT !.pc = "failed"] /\ UNCHANGED <<cur, prev>>
     ELSE IF page.shareId
     THEN /\ page' = [page EXCEPT !.pc = "fetching", !.shareId = FALSE]
          /\ UNCHANGED <<cur, prev>>
     ELSE /\ page' = LoadStored(page)
          /\ cur' = NewCall("getString", STORAGE_KEY, Null)
          /\ prev' = cur
  /\ UNCHANGED <<idb, ls, hasLS, lsRaises, leaked, tx, co>>

\* Bug variant of FetchOk: setIsLoaded(true) is missing on the share
\* path, so the save effect never starts a timer for the shared code.
FetchOkNotLoaded ==
  /\ page.pc = "fetching"
  /\ \E v \in Vals :
       page' = [page EXCEPT !.pc = "ready", !.code = v, !.shared = v,
                            !.isLoadingShare = FALSE]
  /\ UNCHANGED <<idb, ls, hasLS, lsRaises, leaked, tx, cur, co, prev>>

\* The share fetch answers ok and its JSON parses (page.tsx lines 54-60);
\* the render that follows starts the save timer (lines 82-85).
FetchOk ==
  /\ page.pc = "fetching"
  /\ \E v \in Vals :
       page' = [page EXCEPT !.pc = "ready", !.code = v, !.shared = v,
                            !.isLoadingShare = FALSE, !.isLoaded = TRUE,
                            !.timer = v]
  /\ UNCHANGED <<idb, ls, hasLS, lsRaises, leaked, tx, cur, co, prev>>

\* The share fetch answers not ok, or fetch or response.json() throws
\* (page.tsx lines 55, 61-64): loadCode falls through to line 67.
FetchFails ==
  /\ page.pc = "fetching"
  /\ page' = LoadStored(page)
  /\ cur' = NewCall("getString", STORAGE_KEY, Null)
  /\ prev' = cur
  /\ UNCHANGED <<idb, ls, hasLS, lsRaises, leaked, tx, co>>

\* getString returned (page.tsx lines 69-73): a truthy savedCode becomes
\* the document, isLoaded is set and the save timer starts.  A getString
\* that threw rejects loadCode.
LoadRead ==
  /\ page.pc = "reading"
  /\ cur.pc = "done"
  /\ page' = IF cur.ret = "threw"
             THEN [page EXCEPT !.pc = "failed"]
             ELSE LET c == IF cur.result \notin {Null, ""}
                           THEN cur.result ELSE page.code
                  IN [page EXCEPT !.pc = "ready", !.code = c,
                                  !.isLoaded = TRUE, !.timer = c]
  /\ prev' = Idle
  /\ UNCHANGED <<idb, ls, hasLS, lsRaises, leaked, tx, cur, co>>

\* Bug variant of Edit: the effect's cleanup is missing, the timer that
\* was pending stays (with the document value it captured) and no new
\* one replaces it.
EditKeepsTimer ==
  /\ ~page.isLoadingShare
  /\ \E v \in Vals \ {page.code} :
       page' = [page EXCEPT !.code = v, !.shared = Null,
                            !.timer = IF page.isLoaded /\ page.timer = Null
                                      THEN v ELSE page.timer]
  /\ UNCHANGED <<idb, ls, hasLS, lsRaises, leaked, tx, cur, co, prev>>

\* The user (or the chat) changes the document (page.tsx lines 106, 119,
\* 127); the editor is rendered once isLoadingShare is false.  The save
\* effect's cleanup clears the pending timer and the effect starts a new
\* one when saving is enabled.
Edit ==
  /\ ~page.isLoadingShare
  /\ \E v \in Vals \ {page.code} :
       page' = [page EXCEPT !.code = v, !.shared = Null,
                            !.timer = IF page.isLoaded THEN v ELSE page.timer]
  /\ UNCHANGED <<idb, ls, hasLS, lsRaises, leaked, tx, cur, co, prev>>

\* The save timer fires while no call is in flight (page.tsx line 84).
SaveFires ==
  /\ page.timer # Null
  /\ cur.pc = "done"
  /\ co.pc = "done"
  /\ cur' = NewCall("setString", STORAGE_KEY, page.timer)
  /\ co' = Idle
  /\ page' = [page EXCEPT !.timer = Null, !.shared = Null, !.expect = Null]
  /\ UNCHANGED <<idb, ls, hasLS, lsRaises, leaked, tx, prev>>

\* The save timer fires while the save before it is in flight.
SaveFiresOverlapping ==
  /\ page.timer # Null
  /\ cur.pc # "done"
  /\ co = Idle
  /\ co' = NewCall("setString", STORAGE_KEY, page.timer)
  /\ page' = [page EXCEPT !.timer = Null, !.shared = Null, !.expect = Null]
  /\ UNCHANGED <<idb, ls, hasLS, lsRaises, leaked, tx, cur, prev>>

\* The last call the page issued.
LastCall == IF co # Idle THEN co ELSE cur

\* The page is loaded again (a reload while a call is in flight is left
\* out): React state and the timer are gone, the tiers and a pending
\* transaction stay.
Reload ==
  /\ page.pc # "none"
  /\ cur.pc = "done"
  /\ co.pc = "done"
  /\ \E share \in BOOLEAN :
       page' = Mounted(share,
                       IF /\ LastCall.op = "setString"
                          /\ LastCall.prim = "resolved"
                          /\ LastCall.txf = "committed"
                       THEN LastCall.value ELSE Null)
  /\ cur' = Idle
  /\ co' = Idle
  /\ UNCHANGED <<idb, ls, hasLS, lsRaises, leaked, tx, prev>>

\* The events of the storage module.
StorageEvent ==
  \/ OpenError
  \/ OpenSuccess
  \/ TransactionThrows
  \/ RequestSuccess
  \/ RequestError
  \/ TxComplete
  \/ TxAbort
  \/ CoOpenError
  \/ CoOpenSuccess
  \/ CoTransactionThrows
  \/ CoRequestSuccess
  \/ CoRequestError

\* First visit: both tiers empty, the page about to render.
InitPage ==
  /\ idb = [k \in Keys |-> Null]
  /\ ls = [k \in Keys |-> Null]
  /\ hasLS \in BOOLEAN
  /\ lsRaises = FALSE
  /\ tx = NoTx
  /\ leaked = FALSE
  /\ cur = Idle
  /\ co = Idle
  /\ prev = Idle
  /\ \E share \in BOOLEAN : page = Mounted(share, Null)

NextPage ==
  \/ LoadMigrate
  \/ LoadMigrated
  \/ FetchOk
  \/ FetchFails
  \/ LoadRead
  \/ Edit
  \/ SaveFires
  \/ SaveFiresOverlapping
  \/ Reload
  \/ StorageEvent

SpecPage == InitPage /\ [][NextPage]_vars

\* One mount of the page over the tiers earlier sessions (or a version
\* of the page that wrote localStorage) left behind, with a Storage whose
\* every method can raise.
InitLoad ==
  /\ \E v \in Vals \cup {INITIAL_CODE, Null} :
       idb = [k \in Keys |-> IF k = STORAGE_KEY THEN v ELSE Null]
  /\ \E v \in Vals \cup {INITIAL_CODE, Null} :
       ls = [k \in Keys |-> IF k = STORAGE_KEY THEN v ELSE Null]
  /\ hasLS \in BOOLEAN
  /\ lsRaises = TRUE
  /\ tx = NoTx
  /\ leaked = FALSE
  /\ cur = Idle
  /\ co = Idle
  /\ prev = Idle
  /\ \E share \in BOOLEAN : page = Mounted(share, Null)

NextLoad ==
  \/ LoadMigrate
  \/ LoadMigrated
  \/ FetchOk
  \/ FetchFails
  \/ LoadRead
  \/ Edit
  \/ SaveFires
  \/ SaveFiresOverlapping
  \/ StorageEvent

\* loadCode continues when the promise it awaits settles, and the share
\* fetch eventually answers or throws.
LoadProgress ==
  /\ WF_vars(LoadMigrate \/ LoadMigrated \/ LoadRead)
  /\ WF_vars(FetchOk \/ FetchFails)

SpecLoad == InitLoad /\ [][NextLoad]_vars /\ Delivery /\ LoadProgress

\* ----------------------------------------------------------------- claims
\* A call has ended.
Done(c, op) == c.op = op /\ c.pc = "done"

\* C1: no shadow writes.  A step that changes localStorage while a
\* setString call is current is the step in which that call's own primary
\* write attempt was rejected (its catch block); hence setString calls
\* whose primary writes all succeed leave the fallback tier as it was.
C1_NoShadowWrites ==
  [][(cur'.op = "setString" /\ ls' # ls)
       => /\ cur.op = "setString" /\ cur.prim = "none"
          /\ cur'.prim = "rejected" /\ cur'.fb = "ok"]_vars

\* C1 witness: a setString whose primary write committed, while the
\* fallback tier still holds an older, different value for the key.
C1_Witness ==
  /\ Done(cur, "setString") /\ cur.prim = "resolved" /\ cur.txf = "committed"
  /\ idb[cur.key] = cur.value
  /\ ls[cur.key] \notin {Null, cur.value}

\* C2: tier preference.  A getString(k) that follows a setString(k, v)
\* whose primary write committed, and whose own primary read succeeds,
\* returns v from the primary tier without reading the fallback tier,
\* whatever the fallback tier holds for k and whatever k held before.
C2_TierPreference ==
  (/\ Done(cur, "getString") /\ cur.prim = "resolved"
   /\ prev.op = "setString" /\ prev.prim = "resolved"
   /\ prev.txf = "committed")
    => /\ cur.ret = "returned"
       /\ cur.result = prev.value
       /\ cur.fb = "none"
       /\ idb[cur.key] = prev.value

\* C2 witness: such a read, with a different value in the fallback tier.
C2_Witness ==
  /\ Done(cur, "getString") /\ cur.prim = "resolved"
  /\ prev.op = "setString" /\ prev.prim = "resolved" /\ prev.txf = "committed"
  /\ cur.result = prev.value
  /\ ls[cur.key] \notin {Null, prev.value}

\* The situation of C3: a getString(k) whose primary read was rejected,
\* right after a setString(k, v) whose primary write was rejected and whose
\* setItem was accepted.
C3_Case ==
  /\ Done(cur, "getString") /\ cur.prim = "rejected"
  /\ prev.op = "setString" /\ prev.prim = "rejected" /\ prev.fb = "ok"

\* C3: fallback on primary absence.  In C3_Case the read returns v, read
\* from the fallback tier, which holds v; the write created no primary
\* transaction, and the step in which a setString handles the rejection
\* of its primary write changes nothing in the primary tier.
C3_FallbackOnPrimaryAbsence ==
  [][/\ C3_Case' => /\ cur'.ret = "returned"
                    /\ cur'.result = prev'.value
                    /\ cur'.fb = "ok"
                    /\ ls'[cur'.key] = prev'.value
                    /\ prev'.txf = "none"
     /\ (cur'.op = "setString" /\ cur.prim = "none" /\ cur'.prim = "rejected")
          => idb' = idb /\ tx' = tx]_vars

\* C3 witness: the case, with the primary tier empty.
C3_Witness ==
  /\ C3_Case
  /\ cur.result = prev.value
  /\ \A k \in Keys : idb[k] = Null

\* C4: the result of getString(k).  It always returns; the result is the
\* primary tier's value when the primary read succeeded and holds k, and
\* otherwise (read rejected, or no primary entry) the fallback tier's value
\* for k, null when it holds none or there is no Storage object.
C4_GetStringResult ==
  Done(cur, "getString") =>
    /\ cur.ret = "returned"
    /\ IF cur.prim = "resolved" /\ idb[cur.key] # Null
       THEN cur.result = idb[cur.key] /\ cur.fb = "none"
       ELSE cur.result = (IF hasLS THEN ls[cur.key] ELSE Null)

\* C4 witness: the primary read failed while both tiers hold different
\* values for k; the fallback value is returned.
C4_Witness ==
  /\ Done(cur, "getString") /\ cur.prim = "rejected"
  /\ idb[cur.key] # Null
  /\ ls[cur.key] \notin {Null, idb[cur.key]}
  /\ cur.result = ls[cur.key]

\* A migration whose primary write committed.
C5_Migrated ==
  /\ Done(cur, "migrateLocalStorageKeyToIdb")
  /\ cur.prim = "resolved" /\ cur.txf = "committed"

\* C5: migration correctness.  Once migrateLocalStorageKeyToIdb(k) has
\* returned and its write of the value v it read from the fallback tier
\* has committed, the primary tier holds (k, v) and the fallback tier holds
\* no k; no step of the call or of its transaction changes another key in
\* either tier.
C5_MigrationCorrect ==
  [][/\ C5_Migrated' => /\ cur'.ret = "returned"
                        /\ cur'.v # Null
                        /\ idb'[cur'.key] = cur'.v
                        /\ ls'[cur'.key] = Null
     /\ (cur'.op = "migrateLocalStorageKeyToIdb" /\ cur' # cur)
          => \A j \in Keys \ {cur'.key} : idb'[j] = idb[j] /\ ls'[j] = ls[j]
    ]_vars

\* C5 witness: a committed migration next to another key that both tiers
\* hold.
C5_Witness ==
  /\ C5_Migrated
  /\ idb[cur.key] = cur.v /\ ls[cur.key] = Null
  /\ \E j \in Keys \ {cur.key} : idb[j] # Null /\ ls[j] # Null

\* C6: migration safety on primary failure.  Whenever a migration of
\* (k, v) has returned and its primary write has failed (the promise was
\* rejected, or the transaction aborted), it returned normally and the
\* fallback tier still holds (k, v).
C6_MigrationSafe ==
  (/\ Done(cur, "migrateLocalStorageKeyToIdb")
   /\ cur.v # Null
   /\ (cur.prim = "rejected" \/ cur.txf = "aborted"))
    => cur.ret = "returned" /\ ls[cur.key] = cur.v

\* The value v is held under k: by a tier, or by the primary write in
\* flight.
Held(k, v) ==
  \/ idb[k] = v
  \/ ls[k] = v
  \/ (tx.kind = "put" /\ tx.key = k /\ tx.value = v)

\* C7: migration never loses the value.  From the moment a migration has
\* read v under k, v is held under k by a tier (or by the write still in
\* flight), during the call and after it.
C7_MigrationNeverLoses ==
  (cur.op = "migrateLocalStorageKeyToIdb" /\ cur.v # Null)
    => Held(cur.key, cur.v)

\* C8: no exception crosses the public boundary: no call ends by throwing,
\* also with a Storage whose methods raise.
C8_NoExceptionCrosses == cur.ret # "threw"

\* C9: every primary write failure triggers the fallback write.  Once a
\* setString(k, v) has returned and its transaction (if any) has finished,
\* with a Storage object whose setItem accepted or was not needed, v is
\* held under k by one of the tiers.
C9_WriteLandsSomewhere ==
  (/\ Done(cur, "setString")
   /\ cur.txf # "pending"
   /\ hasLS /\ cur.fb # "threw")
    => idb[cur.key] = cur.value \/ ls[cur.key] = cur.value

\* C10: quota-exceeded swallow.  The step in which a setString whose
\* primary write was rejected has its setItem raise ends the call normally
\* and changes neither tier; if the fallback tier had no entry for k, a
\* getString(k) that has to read the fallback tier then yields null.
C10_QuotaSwallow ==
  [][(cur.op = "setString" /\ cur.prim = "none"
      /\ cur'.prim = "rejected" /\ cur'.fb = "threw")
       => /\ cur'.pc = "done" /\ cur'.ret = "returned"
          /\ ls' = ls /\ idb' = idb
          /\ ls[cur.key] = Null
               => getStringFallback(NewCall("getString", cur.key, Null),
                                    ls', hasLS, FALSE).call.result = Null
    ]_vars

\* C10 witness: a swallowed setItem failure with an older, different value
\* kept in the fallback tier.
C10_Witness ==
  /\ Done(cur, "setString") /\ cur.prim = "rejected" /\ cur.fb = "threw"
  /\ ls[cur.key] \notin {Null, cur.value}
\* What getString(k) yields in the tiers db and store when its primary
\* read succeeds, and when it is rejected (no Storage method raising).
ReadViaPrimary(db, store, k) ==
  getStringResolved(NewCall("getString", k, Null), idbGetString(db, k),
                    store, hasLS, FALSE).call.result
ReadViaFallback(store, k) ==
  getStringFallback(NewCall("getString", k, Null), store, hasLS,
                    FALSE).call.result

\* C11: remove(k) deletes on both tiers independently.  A remove that has
\* ended returned normally, after a primary attempt (resolved or rejected)
\* and, where a Storage object exists, a fallback attempt (carried out or
\* raising) whatever the primary outcome.  A fallback deletion that did not
\* raise leaves no k in the fallback tier, a committed primary deletion no
\* k in the primary tier; after both, getString(k) yields null on either
\* path.  No step of the call or of its transaction changes another key.
C11_RemoveBothTiers ==
  [][/\ (cur'.op = "remove" /\ cur'.pc = "done")
          => /\ cur'.ret = "returned"
             /\ cur'.prim \in {"resolved", "rejected"}
             /\ cur'.fb \in (IF hasLS THEN {"ok", "threw"} ELSE {"nols"})
             /\ cur'.fb = "ok" => ls'[cur'.key] = Null
             /\ cur'.txf = "committed" => idb'[cur'.key] = Null
             /\ (cur'.txf = "committed" /\ cur'.fb \in {"ok", "nols"})
                  => /\ ReadViaPrimary(idb', ls', cur'.key) = Null
                     /\ ReadViaFallback(ls', cur'.key) = Null
     /\ (cur'.op = "remove" /\ cur' # cur)
          => \A j \in Keys \ {cur'.key} : idb'[j] = idb[j] /\ ls'[j] = ls[j]
    ]_vars

\* C11 witness: the primary deletion was rejected and the fallback
\* deletion was carried out all the same, next to another key.
C11_Witness ==
  /\ Done(cur, "remove") /\ cur.prim = "rejected" /\ cur.fb = "ok"
  /\ idb[cur.key] # Null /\ ls[cur.key] = Null
  /\ \E j \in Keys \ {cur.key} : ls[j] # Null
\* C12: idempotent remove.  Every step of a remove(k), and of its
\* transaction, taken while neither tier holds k leaves both tiers exactly
\* as they are, and the call does not throw; with C11 (a completed remove
\* leaves k in neither tier) a second remove(k) changes nothing.
C12_IdempotentRemove ==
  [][(/\ cur'.op = "remove" /\ cur' # cur
      /\ idb[cur'.key] = Null /\ ls[cur'.key] = Null)
       => idb' = idb /\ ls' = ls /\ cur'.ret # "threw"]_vars

\* C12 witness: a completed remove of a key neither tier holds, while both
\* tiers hold another key.
C12_Witness ==
  /\ Done(cur, "remove") /\ cur.prim = "resolved" /\ cur.txf = "committed"
  /\ cur.fb = "ok"
  /\ idb[cur.key] = Null /\ ls[cur.key] = Null
  /\ \E j \in Keys \ {cur.key} : idb[j] # Null /\ ls[j] # Null
\* The elements of a sequence.
SeqSet(s) == {s[i] : i \in 1..Len(s)}

\* The keys of a tier that start with prefix p.
Matching(store, p) == {k \in Keys : store[k] # Null /\ StartsWith(k, p)}

\* C13: prefix scan exclusivity.  A keysWithPrefix(p) whose primary
\* listing succeeded returns exactly the primary tier's keys that start
\* with p, each once, without reading the fallback tier, also when that
\* set is empty.
C13_PrefixScanExclusive ==
  (Done(cur, "keysWithPrefix") /\ cur.prim = "resolved")
    => /\ cur.ret = "returned"
       /\ cur.fb = "none"
       /\ SeqSet(cur.keys) = Matching(idb, cur.key)
       /\ Len(cur.keys) = Cardinality(Matching(idb, cur.key))

\* C13 witness: an empty result while the fallback tier holds a key that
\* starts with p.
C13_Witness ==
  /\ Done(cur, "keysWithPrefix") /\ cur.prim = "resolved"
  /\ cur.keys = <<>>
  /\ Matching(ls, cur.key) # {}

\* C14: prefix scan fallback.  A keysWithPrefix(p) whose primary listing
\* was rejected returns exactly the fallback tier's keys that start with p,
\* each once (none without a Storage object); no step of a keysWithPrefix
\* call changes either tier.
C14_PrefixScanFallback ==
  [][/\ (cur'.op = "keysWithPrefix" /\ cur'.pc = "done"
         /\ cur'.prim = "rejected")
          => /\ cur'.ret = "returned"
             /\ SeqSet(cur'.keys) =
                  (IF hasLS THEN Matching(ls', cur'.key) ELSE {})
             /\ Len(cur'.keys) = Cardinality(SeqSet(cur'.keys))
     /\ (cur'.op = "keysWithPrefix" /\ cur' # cur)
          => idb' = idb /\ ls' = ls
    ]_vars

\* C14 witness: the scan returned one key of a fallback tier that holds
\* two, while the primary tier holds none of them.
C14_Witness ==
  /\ Done(cur, "keysWithPrefix") /\ cur.prim = "rejected"
  /\ Len(cur.keys) = 1
  /\ \A k \in Keys : ls[k] # Null /\ idb[k] = Null
\* A step that ends the pending transaction (commit or abort).
TxEnds == tx # NoTx /\ tx' = NoTx

\* C15: migration no-op and idempotence.  Invoking
\* migrateLocalStorageKeyToIdb(k) while the fallback tier holds nothing for
\* k, or without a Storage object, returns at once: no primary operation,
\* no transaction, both tiers unchanged.  A migration that ended having
\* read nothing made no primary attempt, and one whose write resolved left
\* no k in the fallback tier, so that invoking it again is that no-op.
C15_MigrationNoOp ==
  [][/\ (/\ cur.pc = "done" /\ ~TxEnds
         /\ cur'.op = "migrateLocalStorageKeyToIdb" /\ cur'.prim = "none"
         /\ (~hasLS \/ ls[cur'.key] = Null))
          => /\ cur'.pc = "done" /\ cur'.ret = "returned" /\ cur'.v = Null
             /\ idb' = idb /\ ls' = ls /\ tx' = tx
     /\ (cur'.op = "migrateLocalStorageKeyToIdb" /\ cur'.pc = "done"
         /\ cur'.v = Null)
          => cur'.prim = "none" /\ cur'.txf = "none"
     /\ (cur'.op = "migrateLocalStorageKeyToIdb" /\ cur'.pc = "done"
         /\ cur'.prim = "resolved")
          => ls'[cur'.key] = Null
    ]_vars

\* C15 witness: a migration that found nothing in the fallback tier, the
\* primary tier holding a value for the key.
C15_Witness ==
  /\ Done(cur, "migrateLocalStorageKeyToIdb")
  /\ hasLS /\ cur.v = Null /\ cur.prim = "none"
  /\ ls[cur.key] = Null /\ idb[cur.key] # Null
\* C16: last-fallback-wins migration.  When the write of a migration
\* commits while the primary tier holds another value p for k, the primary
\* tier then holds the fallback's value f in place of p, and the fallback
\* tier holds no k.
C16_LastFallbackWins ==
  [][(/\ cur.op = "migrateLocalStorageKeyToIdb"
      /\ cur.txf = "pending" /\ cur'.txf = "committed"
      /\ idb[cur.key] \notin {Null, cur.v})
       => /\ idb'[cur.key] = cur.v
          /\ idb'[cur.key] # idb[cur.key]
          /\ ls'[cur.key] = Null]_vars

\* C16 witness: a migration has returned and its write of f is about to
\* commit over a different primary value p.
C16_Witness ==
  /\ Done(cur, "migrateLocalStorageKeyToIdb")
  /\ cur.prim = "resolved" /\ cur.txf = "pending"
  /\ tx = [kind |-> "put", key |-> cur.key, value |-> cur.v]
  /\ idb[cur.key] \notin {Null, cur.v}
  /\ ls[cur.key] = Null
\* C18: getString has no side effects on stored data.  No step of a
\* getString call, on any path, changes the primary tier, the fallback
\* tier or the pending transaction.
C18_GetStringReadOnly ==
  [][(cur'.op = "getString" /\ cur' # cur)
       => idb' = idb /\ ls' = ls /\ tx' = tx]_vars

\* C18 witness: a primary miss served by the fallback tier, whose entry is
\* still there.
C18_Witness ==
  /\ Done(cur, "getString") /\ cur.prim = "resolved" /\ cur.fb = "ok"
  /\ idb[cur.key] = Null
  /\ cur.result # Null /\ ls[cur.key] = cur.result
\* The connections withStore has opened and not closed: the one of the
\* call awaiting its request, the one of the pending transaction, and any
\* that no handler will close.
OpenConnections ==
  (IF cur.pc = "req" THEN 1 ELSE 0) + (IF tx # NoTx THEN 1 ELSE 0)
    + (IF leaked THEN 1 ELSE 0)

\* C17: connection release.  Whenever no call is in flight and no
\* transaction is pending, no primary-tier connection is open.
C17_ConnectionsReleased ==
  (cur.pc = "done" /\ tx = NoTx) => OpenConnections = 0

\* C20: read-your-writes across tiers.  A getString(k) right after a
\* setString(k, v) that stored v in a tier (its primary write committed,
\* or its fallback write was accepted) returns v, whatever the primary
\* tier's availability in either call.
C20_ReadYourWrites ==
  (/\ Done(cur, "getString")
   /\ prev.op = "setString"
   /\ \/ prev.prim = "resolved" /\ prev.txf = "committed"
      \/ prev.prim = "rejected" /\ prev.fb = "ok")
    => cur.ret = "returned" /\ cur.result = prev.value
\* Two overlapping setString calls on one key (cur issued first) have
\* both returned with their primary writes resolved and no transaction
\* pending.
C19_Case ==
  /\ Done(cur, "setString") /\ Done(co, "setString")
  /\ cur.key = co.key
  /\ cur.prim = "resolved" /\ co.prim = "resolved"
  /\ tx = NoTx

\* C19: concurrent sets are last-commit-wins.  After two overlapping
\* setString(k, v1) and setString(k, v2) whose primary writes resolved,
\* the primary tier holds under k the value of the transaction that
\* committed last (co's when it committed, else cur's when that one
\* committed), and no step of the pair changed localStorage.
C19_LastCommitWins ==
  /\ [](C19_Case /\ co.txf = "committed" => idb[co.key] = co.value)
  /\ [](C19_Case /\ co.txf = "aborted" /\ cur.txf = "committed"
          => idb[cur.key] = cur.value)
  /\ [][(/\ cur.op = "setString" /\ co.op = "setString"
         /\ cur' = [cur EXCEPT !.pc = cur'.pc, !.ret = cur'.ret,
                               !.prim = cur'.prim, !.txf = cur'.txf]
         /\ cur'.prim # "rejected" /\ co'.prim # "rejected")
          => ls' = ls]_vars

C19_Witness ==
  /\ C19_Case
  /\ cur.txf = "committed" /\ co.txf = "committed"
  /\ cur.value # co.value
  /\ idb[co.key] = co.value
\* C21: every call runs to completion.  When every open request, request
\* and transaction eventually reports its outcome, a call that is in
\* flight eventually ends.
C21_CallsComplete == (cur.pc # "done") ~> (cur.pc = "done")

C21_Witness ==
  /\ cur.op = "migrateLocalStorageKeyToIdb"
  /\ cur.pc = "done"
  /\ cur.prim = "rejected"
\* C22: per-key independence.  A step changes the primary-tier entry of
\* a key j only by finishing a transaction on j, and the fallback-tier
\* entry of j only within a setString, remove or migration call on j:
\* the entries of every other key are left as they were, whether the
\* call succeeds or fails.
C22_PerKeyIndependence ==
  [][\A j \in Keys :
       /\ idb'[j] # idb[j] => tx # NoTx /\ tx.key = j
       /\ ls'[j] # ls[j] => IsWrite(cur') /\ cur'.key = j]_vars

C22_Witness ==
  /\ cur.op = "remove"
  /\ cur.txf = "committed"
  /\ idb[cur.key] = Null
  /\ \E j \in Keys \ {cur.key} : idb[j] # Null /\ ls[j] # Null
\* A keysWithPrefix call whose primary listing was rejected and whose
\* scan of localStorage raised has ended.
C23_Case ==
  /\ Done(cur, "keysWithPrefix")
  /\ cur.prim = "rejected"
  /\ cur.fb = "threw"

C30_ScanReadConsistency ==
  /\ Done(cur, "keysWithPrefix")
       => \A i \in 1..Len(cur.keys) : StartsWith(cur.keys[i], cur.key)
  /\ (/\ Done(cur, "getString")
      /\ prev.op = "keysWithPrefix"
      /\ cur.prim = prev.prim)
       => cur.ret = "returned" /\ cur.result # Null

C30_Witness ==
  /\ Done(cur, "getString")
  /\ prev.op = "keysWithPrefix"
  /\ prev.key = "doc-"
  /\ cur.prim = "rejected" /\ prev.prim = "rejected"
  /\ cur.result # Null
\* C26: migration concurrent with a write.  After a migration of k that
\* read a value from localStorage and a setString(k, w) issued while it
\* was in flight have both ended, with w stored by the setString and no
\* transaction pending, w is held under k by a tier and a getString(k)
\* served by the primary tier returns w.
C26_MigrationKeepsConcurrentWrite ==
  (/\ Done(cur, "migrateLocalStorageKeyToIdb") /\ cur.v # Null
   /\ Done(co, "setString") /\ co.key = cur.key
   /\ tx = NoTx
   /\ \/ co.prim = "resolved" /\ co.txf = "committed"
      \/ co.prim = "rejected" /\ co.fb = "ok")
    => /\ Held(co.key, co.value)
       /\ ReadViaPrimary(idb, ls, co.key) = co.value
\* A step in which the page issues a call of op in slot c (c2 after it).
Issues(c, c2, op) ==
  /\ c2.op = op
  /\ c2 # c
  /\ c.pc = "done"
  /\ c2.prim = "none"

\* C24: cold-start order in the page container.  The migration of
\* STORAGE_KEY is invoked only as the first step of a mount; getString is
\* invoked only once that migration has returned; a setString is issued
\* only after loadCode has returned with isLoaded true and isLoadingShare
\* false, so the built-in document is written only after the stored
\* document was read.
C24_ColdStartOrder ==
  [][/\ Issues(cur, cur', "migrateLocalStorageKeyToIdb")
          => page.pc = "mount" /\ page'.pc = "migrating"
              /\ cur'.key = STORAGE_KEY
     /\ Issues(cur, cur', "getString")
          => /\ Done(cur, "migrateLocalStorageKeyToIdb")
             /\ cur.ret = "returned"
             /\ cur'.key = STORAGE_KEY
     /\ \A c \in {<<cur, cur'>>, <<co, co'>>} :
          Issues(c[1], c[2], "setString")
            => /\ page.isLoaded /\ ~page.isLoadingShare
               /\ page.pc = "ready"
               /\ c[2].value = INITIAL_CODE => page.read]_vars

C24_Witness ==
  /\ cur.op = "setString"
  /\ cur.value = INITIAL_CODE
  /\ page.read /\ page.isLoaded /\ ~page.isLoadingShare
\* C25: cold start restores the last saved document.  When the last
\* setString of the session before committed v to the primary tier, and
\* on the next cold start the migration and the read are both served by
\* their tiers (localStorage present, the migration a no-op or committed,
\* the primary read resolved), loadCode ends with the document v.
C25_ColdStartRestores ==
  [][(/\ page.pc = "reading" /\ page'.pc = "ready"
      /\ page.expect # Null
      /\ hasLS
      /\ prev.op = "migrateLocalStorageKeyToIdb"
      /\ \/ prev.prim = "none"
         \/ prev.prim = "resolved" /\ prev.txf = "committed"
      /\ cur.prim = "resolved")
       => page'.code = page.expect]_vars
\* Editing has stopped and every save the page issued has ended: the page
\* is loaded, no timer and no transaction is pending, no call in flight.
C28_Quiet ==
  /\ page.pc = "ready"
  /\ page.timer = Null
  /\ cur.pc = "done" /\ co.pc = "done"
  /\ tx = NoTx
  /\ LastCall.op = "setString"

C29_SharedLinkLoad ==
  /\ [][page.pc = "fetching" /\ page'.pc = "ready"
          => page'.shared # Null /\ page'.shared = page'.code]_vars
  /\ [](page.shared # Null
          => /\ page.code = page.shared
             /\ ~page.read
             /\ page.isLoaded /\ ~page.isLoadingShare
             /\ page.timer = page.shared)
  /\ [][\A c \in {<<cur, cur'>>, <<co, co'>>} :
          page.shared # Null /\ Issues(c[1], c[2], "setString")
            => c[2].key = STORAGE_KEY /\ c[2].value = page.shared]_vars
  /\ [][page.shared # Null /\ page'.pc = "ready" /\ page'.timer = Null
          => \E c \in {<<cur, cur'>>, <<co, co'>>} :
               Issues(c[1], c[2], "setString")]_vars

C29_Witness ==
  /\ page.shared # Null
  /\ page.timer = page.shared
  /\ idb[STORAGE_KEY] \notin {Null, page.shared}
\* C27: page load always finishes.  On every path of loadCode the
\* procedure eventually ends with isLoaded true and isLoadingShare false.
C27_LoadFinishes ==
  (page.pc = "mount") ~> (page.isLoaded /\ ~page.isLoadingShare)
====
